---- MODULE Spec2Model ----
(***************************************************************************)
(* A model of python-objectrocket: the transport client of                 *)
(* src/objectrocket/client.py (credential, session, request envelope,     *)
(* response parsing, listing / add / delete calls) and the resource graph  *)
(* of src/objectrocket/resource.py (Database, Collection, ACL).            *)
(*                                                                         *)
(* Python values are tagged records: None is [t |-> "none"], a str is      *)
(* [t |-> "str", s |-> ...], an int is [t |-> "int", n |-> ...], a list is  *)
(* [t |-> "list", items |-> <<...>>], a JSON object (insertion ordered) is *)
(* [t |-> "dict", items |-> << <<key, value>>, ... >>].  The flat dicts    *)
(* the client builds and iterates itself (post data, response envelopes,  *)
(* list entries, resource attributes) are TLA+ functions on strings.      *)
(***************************************************************************)
EXTENDS Integers, Sequences, FiniteSets, TLC

VARIABLES
    api_key,            \* Client._api_key, per client
    session,            \* Client._session, per client
    post_data_default,  \* the one dict object bound to _post_data's data={}
    supplied,           \* history: the value last given to the setter
    op,                 \* the operation the caller performed last
    ret,                \* what that operation returned or raised
    reqlog,             \* the Client.request calls that operation made
    held,               \* the Resource object the caller holds
    stack,              \* Database attribute lookup: pending __getattr__ names
    pc,                 \* position of the multi-step operation in progress
    remote              \* the instance's ACL / database entries at the server

vars == <<api_key, session, post_data_default, supplied, op, ret, reqlog,
          held, stack, pc, remote>>

----------------------------------------------------------------------------
(* Bounds *)

NumClients == 2
MaxList == 3
MaxDepth == 3
MaxRemote == 2

----------------------------------------------------------------------------
(* Python values *)

NoneV == [t |-> "none"]
Omitted == [t |-> "omitted"]
StrV(s) == [t |-> "str", s |-> s]
IntV(n) == [t |-> "int", n |-> n]
BoolV(b) == [t |-> "bool", b |-> b]
ListV(items) == [t |-> "list", items |-> items]
DictV(items) == [t |-> "dict", items |-> items]
EmptyDict == DictV(<< >>)
EmptyMap == [k \in {} |-> NoneV]
MapV(m) == [t |-> "map", m |-> m]

Digit(d) ==
    CASE d = 0 -> "0" [] d = 1 -> "1" [] d = 2 -> "2" [] d = 3 -> "3"
      [] d = 4 -> "4" [] d = 5 -> "5" [] d = 6 -> "6" [] d = 7 -> "7"
      [] d = 8 -> "8" [] d = 9 -> "9"

RECURSIVE NatToStr(_)
NatToStr(n) == IF n < 10 THEN Digit(n) ELSE NatToStr(n \div 10) \o Digit(n % 10)

IntToStr(n) == IF n < 0 THEN "-" \o NatToStr(0 - n) ELSE NatToStr(n)

isinstance_str(v) == v.t = "str"

RECURSIVE json_dumps(_)
RECURSIVE json_join(_, _)
json_join(items, isDict) ==
    IF items = << >> THEN ""
    ELSE LET h == Head(items)
             one == IF isDict THEN "\"" \o h[1] \o "\": " \o json_dumps(h[2])
                    ELSE json_dumps(h)
         IN IF Len(items) = 1 THEN one
            ELSE one \o ", " \o json_join(Tail(items), isDict)

json_dumps(v) ==
    CASE v.t = "none" -> "null"
      [] v.t = "bool" -> (IF v.b THEN "true" ELSE "false")
      [] v.t = "int"  -> IntToStr(v.n)
      [] v.t = "str"  -> "\"" \o v.s \o "\""
      [] v.t = "list" -> "[" \o json_join(v.items, FALSE) \o "]"
      [] v.t = "dict" -> "{" \o json_join(v.items, TRUE) \o "}"

\* '%s' % v for the values a response carries
format_s(v) ==
    CASE v.t = "none" -> "None"
      [] v.t = "str"  -> v.s
      [] v.t = "int"  -> IntToStr(v.n)
      [] v.t = "bool" -> (IF v.b THEN "True" ELSE "False")
      [] v.t = "list" -> (IF v.items = << >> THEN "[]" ELSE "[...]")
      [] v.t = "dict" -> (IF v.items = << >> THEN "{}" ELSE "{...}")
      [] v.t = "map"  -> (IF DOMAIN v.m = {} THEN "{}" ELSE "{...}")

Return(v) == [kind |-> "return", val |-> v]
Raise(e, a) == [kind |-> "raise", exc |-> e, args |-> a]
NoResult == [kind |-> "none"]

\* `except cls` catches an exception of class e.  The exception classes of
\* objectrocket.exceptions are unrelated siblings, and none of them is a
\* requests.RequestException.
IsInstance(e, cls) == e = cls

----------------------------------------------------------------------------
(* Input domains *)

Clients == 1..NumClients

\* credential values: a string and a non-string
KeyValues == {StrV("1234"), IntV(77)}

PayloadValues ==
    {EmptyDict, StrV("raw"), DictV(<< <<"a", IntV(5)>> >>)}

\* dicts handed to _post_data, some with an api_key of their own
PayloadMaps ==
    {m \in UNION {[D -> PayloadValues] : D \in SUBSET {"doc", "api_key"}} :
        "api_key" \in DOMAIN m => m["api_key"] = StrV("raw")}

\* doc arguments of request
DocArgs == {Omitted, NoneV} \cup PayloadValues

Stubs == {"instance"}

Methods == {"post", "POST"}

RCs == {IntV(0), IntV(1), IntV(2)}
DataValues == {StrV("1234"), NoneV}
MsgValues == {StrV("fail"), StrV("")}

Envelope(rc, hasData, data, hasMsg, msg) ==
    [k \in {"rc"} \cup (IF hasData THEN {"data"} ELSE {})
                  \cup (IF hasMsg THEN {"msg"} ELSE {}) |->
        CASE k = "rc" -> rc [] k = "data" -> data [] k = "msg" -> msg]

\* response envelopes {rc, data?, msg?}
Envelopes ==
    {Envelope(rc, hd, d, hm, m) :
        rc \in RCs, hd \in BOOLEAN, d \in DataValues,
        hm \in BOOLEAN, m \in MsgValues}

\* what the HTTP layer gives back: a requests exception (connection failure,
\* timeout, or a non-2xx status at raise_for_status) or a JSON body
TransportFailures == {[t |-> "conn"], [t |-> "status"]}
Json(body) == [t |-> "json", body |-> body]

Ok(data) == Envelope(IntV(0), TRUE, data, FALSE, NoneV)

\* the ways a call can fail: in transport, or with rc # 0
Failures == {[t |-> "status"], Json(Envelope(IntV(1), FALSE, NoneV, TRUE, StrV("fail")))}

\* answers to a call whose result the client passes through
CallNets == Failures \cup {Json(Ok(StrV("test")))}

----------------------------------------------------------------------------
(* Client: credential and session *)

api_server == "https://api.objectrocket.com"

create_user_agent == "python-requests" \o " ObjectRocket/" \o "VERSION"

\* the Session that _create_session builds
create_session ==
    [t |-> "session",
     headers |-> [h \in {"User-Agent", "Accept"} |->
                    IF h = "User-Agent" THEN create_user_agent
                    ELSE "text/plain,application/json"]]

api_key_get_unchecked(c) == Return(api_key[c])

\* the api_key property getter
api_key_get(c) ==
    IF api_key[c] = NoneV
    THEN Raise("ObjectRocketNoApiKey", <<StrV("No API key provided")>>)
    ELSE Return(api_key[c])

\* the session after the api_key setter ran with value v
setter_session(c, v) == IF v # NoneV THEN create_session ELSE session[c]

Idle == pc = "idle"

Done(o, r, log) == op' = o /\ ret' = r /\ reqlog' = log

\* client.api_key = v
SetApiKey(c, v) ==
    /\ Idle
    /\ session' = [session EXCEPT ![c] = setter_session(c, v)]
    /\ api_key' = [api_key EXCEPT ![c] = v]
    /\ supplied' = [supplied EXCEPT ![c] = v]
    /\ Done([name |-> "set", c |-> c, v |-> v], Return(NoneV), << >>)
    /\ UNCHANGED <<post_data_default, held, stack, pc, remote>>

\* del client.api_key
DelApiKey(c) ==
    /\ Idle
    /\ api_key' = [api_key EXCEPT ![c] = NoneV]
    /\ session' = [session EXCEPT ![c] = NoneV]
    /\ supplied' = [supplied EXCEPT ![c] = NoneV]
    /\ Done([name |-> "del", c |-> c], Return(NoneV), << >>)
    /\ UNCHANGED <<post_data_default, held, stack, pc, remote>>

\* client.api_key
GetApiKey(c) ==
    /\ Idle
    /\ Done([name |-> "get", c |-> c], api_key_get(c), << >>)
    /\ UNCHANGED <<api_key, session, supplied, post_data_default, held,
                   stack, pc, remote>>

----------------------------------------------------------------------------
(* Client: request envelope and response parsing *)

\* the loop of _post_data: every value that is not a str is dumped
dump_values(data) ==
    [k \in DOMAIN data |->
        IF isinstance_str(data[k]) THEN data[k]
        ELSE StrV(json_dumps(data[k]))]

update_api_key_first(d1, key) ==
    [k \in DOMAIN d1 \cup {"api_key"} |->
        IF k \in DOMAIN d1 THEN d1[k] ELSE key]

\* data.update({'api_key': self.api_key})
update_api_key(d1, key) ==
    [k \in DOMAIN d1 \cup {"api_key"} |->
        IF k = "api_key" THEN key ELSE d1[k]]

post_data_return(d2) == [ret |-> Return(d2), data |-> d2]

\* _post_data after its loop left d1, self.api_key giving key
post_data_update(key, d1) ==
    IF key.kind = "raise" THEN [ret |-> key, data |-> d1]
    ELSE post_data_return(update_api_key(d1, key.val))

\* _post_data on the dict object `data`: the call's result and the dict
\* object as the call leaves it (the dict is updated in place)
post_data(c, data) == post_data_update(api_key_get(c), dump_values(data))

py_int(v) == v.n

dict_get(d, k) == IF k \in DOMAIN d THEN d[k] ELSE NoneV

parse_data_msg_or(data) ==
    IF py_int(data["rc"]) # 0
    THEN LET msg == IF "msg" \in DOMAIN data /\ data["msg"] # StrV("")
                    THEN data["msg"]
                    ELSE StrV("No msg provided (" \o
                              format_s(dict_get(data, "data")) \o ")")
         IN Raise("ObjectRocketNonZeroRC",
                  <<data["rc"], StrV(format_s(msg))>>)
    ELSE IF "data" \in DOMAIN data THEN Return(data["data"])
    ELSE Raise("KeyError", <<StrV("data")>>)

\* Client._parse_data
parse_data(data) ==
    IF py_int(data["rc"]) # 0
    THEN LET msg == IF "msg" \in DOMAIN data THEN data["msg"]
                    ELSE StrV("No msg provided (" \o
                              format_s(dict_get(data, "data")) \o ")")
         IN Raise("ObjectRocketNonZeroRC",
                  <<data["rc"], StrV(format_s(msg))>>)
    ELSE IF "data" \in DOMAIN data THEN Return(data["data"])
    ELSE Raise("KeyError", <<StrV("data")>>)

lower(m) == IF m = "POST" THEN "post" ELSE m

\* the decorator around request
catch_http_exception(r) ==
    IF r.kind = "raise" /\ IsInstance(r.exc, "RequestException")
    THEN Raise("ObjectRocketHTTPError", r.args)
    ELSE r

request_doc_none(docArg) == IF docArg = Omitted THEN NoneV ELSE docArg

\* the doc parameter of request, which defaults to {}
request_doc(docArg) == IF docArg = Omitted THEN EmptyDict ELSE docArg

\* what request hands to the session method
request_call(stub, docArg, method, data) ==
    [url |-> api_server \o "/" \o stub, method |-> lower(method),
     doc |-> docArg, data |-> data]

\* func(url, data), raise_for_status, r.json() and _parse_data
http_result(net) ==
    IF net.t \in {"conn", "status"}
    THEN Raise("RequestException", <<StrV(net.t)>>)
    ELSE parse_data(net.body)

\* request once _post_data gave pd and left the default dict as dflt2
request_send(c, stub, docArg, method, net, pd, dflt2) ==
    IF pd.ret.kind = "raise"
    THEN [ret |-> pd.ret, sent |-> << >>, dflt |-> dflt2]
    ELSE IF session[c] = NoneV
    THEN [ret |-> Raise("AttributeError", <<StrV(lower(method))>>),
          sent |-> << >>, dflt |-> dflt2]
    ELSE [ret |-> catch_http_exception(http_result(net)),
          sent |-> <<request_call(stub, docArg, method, pd.ret.val)>>,
          dflt |-> dflt2]

request_default(c, stub, docArg, method, net, pd) ==
    request_send(c, stub, docArg, method, net, pd, pd.data)

\* request with its doc parameter bound: `doc is not None` wraps it in a
\* fresh dict, otherwise _post_data() runs on its default dict
request_with(c, dflt, stub, docArg, method, net, doc) ==
    IF doc # NoneV
    THEN request_send(c, stub, docArg, method, net,
                      post_data(c, [k \in {"doc"} |-> doc]), dflt)
    ELSE request_default(c, stub, docArg, method, net, post_data(c, dflt))

\* Client.request(stub, doc, method) on client c, the shared default dict
\* of _post_data being dflt, the HTTP layer answering net.  Gives the result,
\* the calls handed to the session (at most one) and the default dict after.
request(c, dflt, stub, docArg, method, net) ==
    request_with(c, dflt, stub, docArg, method, net, request_doc(docArg))

ClientFrame == UNCHANGED <<api_key, session, supplied, held, stack, pc, remote>>

PostDataDone(c, arg, r) ==
    /\ Done([name |-> "_post_data", c |-> c, arg |-> arg], r.ret, << >>)
    /\ post_data_default' = IF arg = Omitted THEN r.data ELSE post_data_default

\* client._post_data() / client._post_data(data)
PostData(c, arg) ==
    /\ Idle
    /\ PostDataDone(c, arg, post_data(c, IF arg = Omitted
                                          THEN post_data_default ELSE arg))
    /\ ClientFrame

\* client._parse_data(data)
ParseData(c, data) ==
    /\ Idle
    /\ Done([name |-> "_parse_data", arg |-> data],
            parse_data(data), << >>)
    /\ UNCHANGED post_data_default
    /\ ClientFrame

Finish(o, r) ==
    /\ Done(o, r.ret, r.sent)
    /\ post_data_default' = r.dflt

\* an operation that is one call of request and returns its result
Call(name, c, stub, docArg, method, net) ==
    /\ Idle
    /\ Finish([name |-> name, c |-> c, stub |-> stub, doc |-> docArg,
               net |-> net],
              request(c, post_data_default, stub, docArg, method, net))
    /\ ClientFrame

Request(c, stub, docArg, method, net) ==
    Call("request", c, stub, docArg, method, net)

get_details(c, net) == Call("get_details", c, "instance", Omitted, "post", net)

get_status(c, plus, net) ==
    Call("get_status", c, "serverStatus" \o (IF plus THEN "Plus" ELSE ""),
         Omitted, "post", net)

get_space_usage(c, net) ==
    Call("get_space_usage", c, "spaceusage/get", Omitted, "post", net)

get_logs(c, net) == Call("get_logs", c, "logs/get", Omitted, "post", net)

show_profile(c, docArg, net) ==
    Call("show_profile", c, "profiler/get", docArg, "post", net)

get_profile_level(c, net) ==
    Call("get_profile_level", c, "profiling_level/get", Omitted, "post", net)

----------------------------------------------------------------------------
(* Client: listings, add and delete *)

\* the two listings: ACLs are keyed on cidr_mask, databases on name
KeyOf(cls) == IF cls = "ACL" THEN "cidr_mask" ELSE "name"
ListStub(cls) == IF cls = "ACL" THEN "acl/get" ELSE "db"
OtherField(cls) == IF cls = "ACL" THEN "description" ELSE "plan"
Ids(cls) == IF cls = "ACL" THEN {"10.0.0.0/24", "10.0.1.0/24"}
            ELSE {"db1", "db2"}
Classes == {"ACL", "Database"}

\* the identifier two of the entries share
SharedId(cls) == CHOOSE id \in Ids(cls) : TRUE

Entry(cls, hasId, id, other) ==
    [k \in {OtherField(cls)} \cup (IF hasId THEN {KeyOf(cls)} ELSE {}) |->
        IF k = KeyOf(cls) THEN StrV(id) ELSE StrV(other)]

\* entries a server list may carry: two that share an identifier, one with
\* another identifier, one without the identifying field
Entries(cls) ==
    {Entry(cls, TRUE, id, "small") : id \in Ids(cls)}
    \cup {Entry(cls, TRUE, SharedId(cls), "large"),
          Entry(cls, FALSE, "", "small")}

SeqsUpTo(S, n) == UNION {[1..m -> S] : m \in 0..n}

EntryLists(cls) == SeqsUpTo(Entries(cls), MaxList)

\* filter arguments: none, or the identifier two entries share (the entry
\* with the other identifier and the one without any are then left out)
Filters(cls) == {NoneV, StrV(SharedId(cls))}

ListNets(cls) == Failures \cup {Json(Ok(ListV(l))) : l \in EntryLists(cls)}

AckNets == Failures \cup {Json(Ok(NoneV))}

\* Resource.__init__ and _populate: every key of data becomes an attribute
Resource(cls, c, data) ==
    [t |-> "resource", cls |-> cls, client |-> c, attrs |-> data]

\* does the listing keep this item
Keeps(filter, item, key) == filter = NoneV \/ filter = dict_get(item, key)

RECURSIVE list_loop_prepend(_, _, _, _, _)
list_loop_prepend(items, acc, cls, c, filter) ==
    IF items = << >> THEN acc
    ELSE list_loop_prepend(Tail(items),
                   IF Keeps(filter, Head(items), KeyOf(cls))
                   THEN <<Resource(cls, c, Head(items))>> \o acc
                   ELSE acc,
                   cls, c, filter)

\* the loop of list_acls / list_databases over the remaining items
RECURSIVE list_loop(_, _, _, _, _)
list_loop(items, acc, cls, c, filter) ==
    IF items = << >> THEN acc
    ELSE list_loop(Tail(items),
                   IF Keeps(filter, Head(items), KeyOf(cls))
                   THEN Append(acc, Resource(cls, c, Head(items)))
                   ELSE acc,
                   cls, c, filter)

\* the listing once its request gave r
list_result(r, cls, c, filter) ==
    IF r.ret.kind = "raise" THEN r
    ELSE [r EXCEPT !.ret =
             Return(ListV(list_loop(r.ret.val.items, << >>, cls, c, filter)))]

\* list_acls(cidr) / list_databases(name)
list_op(c, dflt, cls, filter, net) ==
    list_result(request(c, dflt, ListStub(cls), Omitted, "post", net),
                cls, c, filter)

first_of_or_none(r) ==
    IF r.ret.kind = "raise" THEN r
    ELSE IF r.ret.val.items = << >>
    THEN [r EXCEPT !.ret = Return(NoneV)]
    ELSE [r EXCEPT !.ret = Return(r.ret.val.items[1])]

\* the trailing `return x[0]` of add_acl / add_database
first_of(r) ==
    IF r.ret.kind = "raise" THEN r
    ELSE IF r.ret.val.items = << >>
    THEN [r EXCEPT !.ret = Raise("IndexError",
                                 <<StrV("list index out of range")>>)]
    ELSE [r EXCEPT !.ret = Return(r.ret.val.items[1])]

add_both(r1, r2) == [r2 EXCEPT !.sent = r1.sent \o r2.sent]

\* the filtered listing and [0] that follow the create request's result r1
add_relist_after(c, cls, filter, net2, r1) ==
    IF r1.ret.kind = "raise" THEN r1
    ELSE add_both(r1, first_of(list_op(c, r1.dflt, cls, filter, net2)))

\* request(stub, doc) followed, when it returned, by a filtered listing
\* of which the first element is returned
add_op(c, dflt, cls, stub, doc, filter, net1, net2) ==
    add_relist_after(c, cls, filter, net2,
                     request(c, dflt, stub, doc, "post", net1))

acl_doc(cidr, description) ==
    DictV(<< <<"cidr_mask", cidr>>, <<"description", description>> >>)

db_add_stub(name) == "db/" \o name \o "/add"

list_acls(c, cidr, net) ==
    /\ Idle
    /\ Finish([name |-> "list_acls", c |-> c, filter |-> cidr, net |-> net],
              list_op(c, post_data_default, "ACL", cidr, net))
    /\ ClientFrame

list_databases(c, name, net) ==
    /\ Idle
    /\ Finish([name |-> "list_databases", c |-> c, filter |-> name,
               net |-> net],
              list_op(c, post_data_default, "Database", name, net))
    /\ ClientFrame

add_acl(c, cidr, description, net1, net2) ==
    /\ Idle
    /\ Finish([name |-> "add_acl", c |-> c, filter |-> cidr, net |-> net1,
               net2 |-> net2],
              add_op(c, post_data_default, "ACL", "acl/add",
                     acl_doc(cidr, description), cidr, net1, net2))
    /\ ClientFrame

\* a method that makes request r and returns v when the request returned
returning(r, v) ==
    IF r.ret.kind = "raise" THEN r ELSE [r EXCEPT !.ret = Return(v)]

delete_op(c, dflt, cidr, net) ==
    returning(request(c, dflt, "acl/delete",
                      DictV(<< <<"cidr_mask", cidr>> >>), "post", net),
              BoolV(TRUE))

delete_acl(c, cidr, net) ==
    /\ Idle
    /\ Finish([name |-> "delete_acl", c |-> c, filter |-> cidr, net |-> net],
              delete_op(c, post_data_default, cidr, net))
    /\ ClientFrame

\* add_database, also bound to the name add_user
add_database(c, name, user, password, net1, net2) ==
    /\ Idle
    /\ Finish([name |-> "add_database", c |-> c, filter |-> StrV(name),
               net |-> net1, net2 |-> net2],
              add_op(c, post_data_default, "Database", db_add_stub(name),
                     DictV(<< <<user, StrV(password)>> >>), StrV(name),
                     net1, net2))
    /\ ClientFrame

add_user(c, name, user, password, net1, net2) ==
    add_database(c, name, user, password, net1, net2)

\* set_profile_level(level, database): database is a name, None or a
\* Database whose name attribute is read
profile_doc(level, name) ==
    DictV(<< <<"level", IntV(level)>> >> \o
          (IF name.t = "str" /\ name.s # "" THEN << <<"db", name>> >>
           ELSE << >>))

----------------------------------------------------------------------------
(* Resources: Database, Collection, ACL *)

\* reading self.<a> on a resource: a populated attribute is returned; a
\* missing one is an AttributeError, except on a Database, where
\* __getattr__ takes it for a collection name, reads self.name to build the
\* stub and so, when name itself is missing, recurses until the
\* interpreter's recursion limit
attr(obj, a) ==
    IF a \in DOMAIN obj.attrs THEN Return(obj.attrs[a])
    ELSE IF obj.cls = "Database" /\ a = "name"
    THEN Raise("RecursionError", <<StrV("maximum recursion depth exceeded")>>)
    ELSE Raise("AttributeError", <<StrV(a)>>)

NoCall(r, dflt) == [ret |-> r, sent |-> << >>, dflt |-> dflt]

\* Database.refresh: re-list by name, bind the first match to the local
\* name self, return None
database_refresh(self, dflt, net) ==
    LET n == attr(self, "name")
    IN IF n.kind = "raise" THEN NoCall(n, dflt)
       ELSE returning(first_of(list_op(self.client, dflt, "Database", n.val,
                                       net)), NoneV)

\* ACL.refresh: reads self.name and calls list_acls(name=...), a keyword
\* list_acls does not take
acl_refresh(self, dflt, net) ==
    LET n == attr(self, "name")
    IN IF n.kind = "raise" THEN NoCall(n, dflt)
       ELSE NoCall(Raise("TypeError",
                         <<StrV("list_acls() got an unexpected keyword argument 'name'")>>),
                   dflt)

\* ACL.delete
acl_delete(self, dflt, net) ==
    LET cm == attr(self, "cidr_mask")
    IN IF cm.kind = "raise" THEN NoCall(cm, dflt)
       ELSE returning(request(self.client, dflt, "acl/delete",
                              DictV(<< <<"cidr_mask", cm.val>> >>), "post",
                              net),
                      BoolV(TRUE))

collection_stub(dbname, name, what) ==
    "db/" \o format_s(dbname) \o "/collection/" \o format_s(name) \o "/" \o what

\* Collection.add / get / update / delete (doc defaults to an empty dict)
collection_call(self, dflt, method, docArg, net) ==
    LET dbn == attr(self.attrs["database"], "name")
        doc == IF docArg = Omitted THEN EmptyDict ELSE docArg
    IN IF dbn.kind = "raise" THEN NoCall(dbn, dflt)
       ELSE request(self.client, dflt,
                    collection_stub(dbn.val, self.attrs["name"], method),
                    doc, "post", net)

\* data.update({'name': name, 'database': self})
collection_data(data, self, name) ==
    [k \in DOMAIN data \cup {"name", "database"} |->
        CASE k = "name" -> StrV(name)
          [] k = "database" -> self
          [] OTHER -> data[k]]

get_collection_uncaught(self, name, r) ==
    IF r.ret.kind = "raise" THEN r
    ELSE [r EXCEPT !.ret =
             Return(Resource("Collection", self.client,
                             collection_data(r.ret.val.m, self, name)))]

\* get_collection once its request gave r: an ObjectRocketNonZeroRC is
\* replaced by an empty dict, any other exception propagates
get_collection_build(self, name, r) ==
    IF r.ret.kind = "raise" /\ ~IsInstance(r.ret.exc, "ObjectRocketNonZeroRC")
    THEN r
    ELSE [r EXCEPT !.ret =
             Return(Resource("Collection", self.client,
                             collection_data(IF r.ret.kind = "raise"
                                             THEN EmptyMap ELSE r.ret.val.m,
                                             self, name)))]

\* the tail of Database.get_collection(name) once self.name is known: the
\* stats request, then the Collection
get_collection_fetch(self, dflt, name, net) ==
    get_collection_build(self, name,
        request(self.client, dflt,
                collection_stub(self.attrs["name"], StrV(name), "stats/get"),
                Omitted, "post", net))

\* the methods a class leaves to Resource, which raise
Unsupported(cls) ==
    CASE cls = "Database" -> {"get", "delete", "update", "add"}
      [] cls = "ACL" -> {"get", "update", "add"}
      [] cls = "Collection" -> {}

AttrNames == {"users", "name", "plan"}

StatsNets ==
    Failures \cup {Json(Ok(MapV(EmptyMap))),
                   Json(Ok(MapV([k \in {"count", "name"} |->
                                   IF k = "count" THEN IntV(3)
                                   ELSE StrV("other")])))}

ResFrame == UNCHANGED <<api_key, session, supplied, held, stack, pc, remote>>

IsA(cls) == held # NoneV /\ held.cls = cls

\* the caller keeps a resource that the last call returned
Keep(i) ==
    /\ Idle
    /\ ret.kind = "return"
    /\ \/ ret.val.t = "list" /\ i \in DOMAIN ret.val.items
          /\ held' = ret.val.items[i]
       \/ ret.val.t = "resource" /\ i = 1 /\ held' = ret.val
    /\ held' # held
    /\ UNCHANGED <<api_key, session, supplied, post_data_default, op, ret,
                   reqlog, stack, pc, remote>>

Database_refresh(net) ==
    /\ Idle /\ IsA("Database")
    /\ Finish([name |-> "Database.refresh", c |-> held.client, self |-> held,
               net |-> net],
              database_refresh(held, post_data_default, net))
    /\ ResFrame

ACL_refresh(net) ==
    /\ Idle /\ IsA("ACL")
    /\ Finish([name |-> "ACL.refresh", c |-> held.client, self |-> held,
               net |-> net],
              acl_refresh(held, post_data_default, net))
    /\ ResFrame

ACL_delete(net) ==
    /\ Idle /\ IsA("ACL")
    /\ Finish([name |-> "ACL.delete", c |-> held.client, self |-> held,
               net |-> net],
              acl_delete(held, post_data_default, net))
    /\ ResFrame

Collection_call(method, docArg, net) ==
    /\ Idle /\ IsA("Collection")
    /\ Finish([name |-> "Collection." \o method, c |-> held.client,
               self |-> held, net |-> net],
              collection_call(held, post_data_default, method, docArg, net))
    /\ ResFrame

\* Resource.get / delete / update / add where the class does not override
Resource_unsupported(method) ==
    /\ Idle /\ held # NoneV /\ method \in Unsupported(held.cls)
    /\ Done([name |-> "Resource." \o method, c |-> held.client,
             self |-> held],
            Raise("ObjectRocketNotImplementedError", << >>), << >>)
    /\ UNCHANGED post_data_default
    /\ ResFrame

set_profile_level(c, level, database, net) ==
    /\ Idle
    /\ LET name == IF database.t = "resource" THEN attr(database, "name")
                   ELSE Return(database)
       IN Finish([name |-> "set_profile_level", c |-> c, net |-> net],
                 IF name.kind = "raise" THEN NoCall(name, post_data_default)
                 ELSE request(c, post_data_default, "profiling_level/set",
                              profile_doc(level, name.val), "post", net))
    /\ ClientFrame

\* db.<name>: a populated attribute is returned as it is; any other name
\* enters __getattr__, that is get_collection(name)
Database_getattr(name) ==
    /\ Idle /\ IsA("Database")
    /\ op' = [name |-> "getattr", c |-> held.client, self |-> held,
              attr |-> name, net |-> NoneV]
    /\ reqlog' = << >>
    /\ IF name \in DOMAIN held.attrs
       THEN ret' = Return(held.attrs[name]) /\ UNCHANGED <<pc, stack>>
       ELSE ret' = NoResult /\ pc' = "get_collection" /\ stack' = <<name>>
    /\ UNCHANGED <<api_key, session, supplied, post_data_default, held,
                   remote>>

\* db.get_collection(name), and Collection.refresh, which calls it on the
\* collection's database with the collection's name
Database_get_collection(name) ==
    /\ Idle
    /\ \/ IsA("Database")
          /\ op' = [name |-> "get_collection", c |-> held.client,
                    self |-> held, attr |-> name, net |-> NoneV]
       \/ IsA("Collection") /\ name = held.attrs["name"].s
          /\ op' = [name |-> "Collection.refresh", c |-> held.client,
                    self |-> held.attrs["database"], attr |-> name,
                    net |-> NoneV]
    /\ reqlog' = << >>
    /\ ret' = NoResult /\ pc' = "get_collection" /\ stack' = <<name>>
    /\ UNCHANGED <<api_key, session, supplied, post_data_default, held,
                   remote>>

\* get_collection evaluating self.name for the stub: a populated name goes
\* on to the request; a missing one re-enters __getattr__("name"), that is
\* get_collection("name"), which evaluates self.name again
get_collection_self_name ==
    /\ pc = "get_collection"
    /\ IF "name" \in DOMAIN op.self.attrs
       THEN pc' = "fetch" /\ UNCHANGED <<stack, ret>>
       ELSE IF Len(stack) < MaxDepth
       THEN stack' = Append(stack, "name") /\ UNCHANGED <<pc, ret>>
       ELSE /\ ret' = attr(op.self, "name")
            /\ pc' = "idle"
            /\ stack' = << >>
    /\ UNCHANGED <<api_key, session, supplied, post_data_default, op, reqlog,
                   held, remote>>

LookupDone(r) ==
    /\ ret' = r.ret
    /\ reqlog' = r.sent
    /\ post_data_default' = r.dflt

\* get_collection making the stats request and building the Collection
get_collection_request(net) ==
    /\ pc = "fetch"
    /\ LookupDone(IF op.name = "Collection.refresh"
                  THEN returning(get_collection_fetch(op.self,
                                     post_data_default, Head(stack), net),
                                 NoneV)
                  ELSE get_collection_fetch(op.self, post_data_default,
                                            Head(stack), net))
    /\ op' = [op EXCEPT !.net = net]
    /\ pc' = "idle"
    /\ stack' = << >>
    /\ UNCHANGED <<api_key, session, supplied, held, remote>>

----------------------------------------------------------------------------
(* The client alone: credential, envelope, parsing; then its calls *)

\* the state Client(api_key=v) constructs
init_session(v) == IF v # NoneV THEN create_session ELSE NoneV

NoRemote == [cls \in Classes |-> << >>]

InitRest ==
    /\ post_data_default = EmptyMap
    /\ op = [name |-> "construct"]
    /\ ret = NoResult
    /\ reqlog = << >>
    /\ held = NoneV
    /\ stack = << >>
    /\ pc = "idle"
    /\ remote = NoRemote

Init ==
    /\ api_key \in [Clients -> KeyValues \cup {NoneV}]
    /\ session = [c \in Clients |-> init_session(api_key[c])]
    /\ supplied = api_key
    /\ InitRest

ShortListNets(cls) ==
    Failures \cup {Json(Ok(ListV(l))) : l \in SeqsUpTo(Entries(cls), 1)}

OkNet == Json(Ok(StrV("test")))

OkListNets(cls) ==
    {Json(Ok(ListV(l))) : l \in {<< >>, <<Entry(cls, FALSE, "", "small")>>}}

Next ==
    \/ \E c \in Clients, v \in KeyValues \cup {NoneV} : SetApiKey(c, v)
    \/ \E c \in Clients : DelApiKey(c)
    \/ \E c \in Clients : GetApiKey(c)
    \/ \E c \in Clients, arg \in {Omitted} \cup PayloadMaps : PostData(c, arg)
    \/ \E c \in Clients, data \in Envelopes : ParseData(c, data)

Spec == Init /\ [][Next]_vars

\* the client's calls: request and the operations that pass its result on,
\* between changes of the credential
NextCall ==
    \/ \E c \in Clients, v \in KeyValues \cup {NoneV} : SetApiKey(c, v)
    \/ \E c \in Clients : DelApiKey(c)
    \/ \E c \in Clients, stub \in Stubs, d \in DocArgs, m \in Methods :
          \E net \in IF m = "post" THEN CallNets ELSE {OkNet} :
             Request(c, stub, d, m, net)
    \/ \E c \in Clients : get_details(c, OkNet)
    \/ \E c \in Clients, plus \in BOOLEAN : get_status(c, plus, OkNet)
    \/ \E c \in Clients : get_space_usage(c, OkNet)
    \/ \E c \in Clients : get_logs(c, OkNet)
    \/ \E c \in Clients, d \in DocArgs : show_profile(c, d, OkNet)
    \/ \E c \in Clients : get_profile_level(c, OkNet)
    \/ \E c \in Clients, net \in OkListNets("ACL") : list_acls(c, NoneV, net)
    \/ \E c \in Clients, net \in OkListNets("Database") :
          list_databases(c, NoneV, net)

SpecCall == Init /\ [][NextCall]_vars

----------------------------------------------------------------------------
(* Properties of the client alone *)

\* C1: a Session exists if and only if the stored credential is non-null,
\* in every state reachable by construct / set / clear.
C1_SessionIffCredential ==
    \A c \in Clients : (session[c] # NoneV) <=> (api_key[c] # NoneV)

\* C2: the getter returns the most recently supplied credential when one is
\* set and raises ObjectRocketNoApiKey exactly when none is set (never
\* supplied, supplied as None, or cleared); the getter changes neither the
\* credential nor the session.
C2_GetterState ==
    op.name = "get" =>
        /\ supplied[op.c] # NoneV => ret = Return(supplied[op.c])
        /\ supplied[op.c] = NoneV =>
              ret.kind = "raise" /\ ret.exc = "ObjectRocketNoApiKey"

C2_Getter ==
    /\ []C2_GetterState
    /\ [][(op'.name = "get" /\ pc = "idle") =>
             (api_key' = api_key /\ session' = session)]_vars

C2_Witness ==
    /\ op.name = "get"
    /\ ret.kind = "return"
    /\ ret.val = StrV("1234")
    /\ \E c \in Clients : c # op.c /\ api_key[c] = NoneV

\* C3 as stated: a request call that is given no doc argument transmits
\* api_key alone, and a doc field is transmitted only for a call that
\* passes a payload.
C3_NoPayloadOmitsDoc ==
    \A i \in DOMAIN reqlog :
        /\ reqlog[i].doc = Omitted => DOMAIN reqlog[i].data = {"api_key"}
        /\ "doc" \in DOMAIN reqlog[i].data =>
              reqlog[i].doc \notin {Omitted, NoneV}

\* C3 amended: the doc field is left out exactly when the doc argument is
\* None; a call given no doc argument transmits the default empty payload
\* as doc = "{}" next to api_key, and a call given a payload transmits it
\* (a string as it is) in doc.
C3_DocOmittedOnlyForNone ==
    \A i \in DOMAIN reqlog :
        LET call == reqlog[i] IN
        /\ call.data["api_key"] = api_key[op.c]
        /\ call.doc = NoneV <=> DOMAIN call.data = {"api_key"}
        /\ call.doc # NoneV => DOMAIN call.data = {"doc", "api_key"}
        /\ call.doc = Omitted => call.data["doc"] = StrV("{}")
        /\ call.doc = StrV("raw") => call.data["doc"] = StrV("raw")

C3_Witness ==
    /\ op.name = "get_details"
    /\ Len(reqlog) = 1
    /\ reqlog[1].doc = Omitted
    /\ reqlog[1].data["doc"] = StrV("{}")

\* the JSON text of the non-string payload values
JsonText(v) ==
    CASE v = EmptyDict -> "{}"
      [] v = DictV(<< <<"a", IntV(5)>> >>) -> "{\"a\": 5}"

\* C4: for a client with a credential, whatever envelopes were built
\* before on any client, _post_data returns exactly the payload's keys plus
\* api_key, api_key being this client's credential, strings unchanged,
\* every other value replaced by its JSON text; with no payload exactly
\* {api_key: credential}.
C4_PostData ==
    op.name = "_post_data" =>
        LET payload == IF op.arg = Omitted THEN EmptyMap ELSE op.arg IN
        /\ api_key[op.c] # NoneV <=> ret.kind = "return"
        /\ ret.kind = "return" =>
              /\ DOMAIN ret.val = DOMAIN payload \cup {"api_key"}
              /\ ret.val["api_key"] = api_key[op.c]
              /\ \A k \in DOMAIN payload \ {"api_key"} :
                    ret.val[k] = IF payload[k].t = "str" THEN payload[k]
                                 ELSE StrV(JsonText(payload[k]))

C4_Witness ==
    /\ op.name = "_post_data"
    /\ op.arg = [k \in {"doc", "api_key"} |->
                   IF k = "doc" THEN EmptyDict ELSE StrV("raw")]
    /\ ret = Return([k \in {"doc", "api_key"} |->
                       IF k = "doc" THEN StrV("{}") ELSE StrV("1234")])

\* the text of the fallback message for each data value
NoMsgText(data) ==
    CASE "data" \notin DOMAIN data -> "No msg provided (None)"
      [] data["data"] = NoneV -> "No msg provided (None)"
      [] data["data"] = StrV("1234") -> "No msg provided (1234)"

\* C5: _parse_data returns the response's data if and only if rc = 0; with
\* rc # 0 it raises ObjectRocketNonZeroRC carrying rc and msg when the
\* response has a msg field, else "No msg provided (<data>)".
C5_ParseData ==
    op.name = "_parse_data" =>
        LET data == op.arg IN
        /\ ret.kind = "return" =>
              data["rc"] = IntV(0) /\ "data" \in DOMAIN data
                /\ ret.val = data["data"]
        /\ (data["rc"] = IntV(0) /\ "data" \in DOMAIN data) =>
              ret = Return(data["data"])
        /\ data["rc"] # IntV(0) =>
              ret = Raise("ObjectRocketNonZeroRC",
                          <<data["rc"],
                            IF "msg" \in DOMAIN data THEN data["msg"]
                            ELSE StrV(NoMsgText(data))>>)

C5_Witness ==
    /\ op.name = "_parse_data"
    /\ op.arg = Envelope(IntV(1), TRUE, StrV("1234"), FALSE, NoneV)
    /\ ret = Raise("ObjectRocketNonZeroRC",
                   <<IntV(1), StrV("No msg provided (1234)")>>)

----------------------------------------------------------------------------
(* Listings against an arbitrary server *)

Owner == 1

InitCred ==
    /\ api_key = [c \in Clients |-> StrV("1234")]
    /\ session = [c \in Clients |-> init_session(api_key[c])]
    /\ supplied = api_key
    /\ InitRest

NextList ==
    \/ \E f \in Filters("ACL"), net \in ListNets("ACL") :
          list_acls(Owner, f, net)
    \/ \E f \in Filters("Database"), net \in ListNets("Database") :
          list_databases(Owner, f, net)
    \/ \E id \in Ids("ACL"), net \in AckNets :
          delete_acl(Owner, StrV(id), net)

SpecList == InitCred /\ [][NextList]_vars

ListedClass == IF op.name = "list_acls" THEN "ACL" ELSE "Database"

\* the positions of the server list that carry the filter's value in the
\* identifying field (all positions when there is no filter)
Matching(l, key, filter) ==
    {i \in DOMAIN l :
        filter = NoneV \/ (key \in DOMAIN l[i] /\ l[i][key] = filter)}

Nth(M, j) == CHOOSE i \in M : Cardinality({k \in M : k < i}) = j - 1

\* C6: list_acls(filter) returns one ACL resource for each server entry
\* whose cidr_mask equals the filter and for no other, in server order (one
\* per entry without a filter); list_databases does the same on name.
C6_ListFilter ==
    (op.name \in {"list_acls", "list_databases"} /\ op.net.t = "json"
        /\ op.net.body["rc"] = IntV(0)) =>
        LET l == op.net.body["data"].items
            M == Matching(l, IF op.name = "list_acls" THEN "cidr_mask"
                             ELSE "name", op.filter)
        IN /\ ret.kind = "return"
           /\ Len(ret.val.items) = Cardinality(M)
           /\ \A j \in 1..Cardinality(M) :
                 /\ ret.val.items[j].attrs = l[Nth(M, j)]
                 /\ ret.val.items[j].cls = ListedClass

C6_Witness ==
    /\ op.name = "list_acls"
    /\ op.filter = StrV("10.0.0.0/24")
    /\ op.net.t = "json"
    /\ op.net.body["rc"] = IntV(0)
    /\ Len(op.net.body["data"].items) = 3
    /\ ret.kind = "return"
    /\ Len(ret.val.items) = 2
    /\ ret.val.items[1].attrs["description"] = StrV("large")
    /\ ret.val.items[2].attrs["description"] = StrV("small")

----------------------------------------------------------------------------
(* The client and the resources it returns, against an arbitrary server *)

NextRes ==
    \/ \E f \in Filters("ACL"), net \in ShortListNets("ACL") :
          list_acls(Owner, f, net)
    \/ \E f \in Filters("Database"), net \in ShortListNets("Database") :
          list_databases(Owner, f, net)
    \/ \E id \in Ids("ACL"), n1 \in AckNets, n2 \in ShortListNets("ACL") :
          add_acl(Owner, StrV(id), StrV("small"), n1, n2)
    \/ \E id \in Ids("ACL"), net \in AckNets :
          delete_acl(Owner, StrV(id), net)
    \/ \E id \in Ids("Database"), n1 \in AckNets,
          n2 \in ShortListNets("Database") :
          \/ add_database(Owner, id, "user", "password", n1, n2)
          \/ add_user(Owner, id, "user", "password", n1, n2)
    \/ \E net \in CallNets :
          \/ get_details(Owner, net)
          \/ get_space_usage(Owner, net)
          \/ get_logs(Owner, net)
          \/ get_profile_level(Owner, net)
          \/ \E plus \in BOOLEAN : get_status(Owner, plus, net)
          \/ show_profile(Owner, Omitted, net)
          \/ \E db \in {NoneV, StrV(""), StrV("db1")}
                      \cup (IF IsA("Database") THEN {held} ELSE {}) :
                set_profile_level(Owner, 1, db, net)
    \/ \E i \in 1..1 : Keep(i)
    \/ \E net \in ShortListNets("Database") : Database_refresh(net)
    \/ \E net \in ShortListNets("ACL") : ACL_refresh(net)
    \/ \E net \in AckNets : ACL_delete(net)
    \/ \E m \in {"add", "get", "update", "delete"}, d \in {Omitted, StrV("raw")},
          net \in CallNets : Collection_call(m, d, net)
    \/ \E m \in {"get", "delete", "update", "add"} : Resource_unsupported(m)
    \/ \E n \in AttrNames : Database_getattr(n)
    \/ \E n \in AttrNames : Database_get_collection(n)
    \/ get_collection_self_name
    \/ \E net \in StatsNets : get_collection_request(net)

SpecRes == InitCred /\ [][NextRes]_vars

RemoteError(net) == net.t = "json" /\ net.body["rc"] # IntV(0)
RemoteOk(net) == net.t = "json" /\ net.body["rc"] = IntV(0)
TransportError(net) == net.t \in {"conn", "status"}

Lookups == {"getattr", "get_collection"}

\* C8: a response with rc # 0 is swallowed only in the Database collection
\* lookup, which then yields a Collection whose only attributes are name
\* and database, while a transport error of that lookup propagates; in
\* every other operation the ObjectRocketNonZeroRC of a request reaches the
\* caller and nothing is returned.
C8_RemoteErrorSwallowedOnce ==
    (pc = "idle" /\ Len(reqlog) >= 1) =>
        /\ (op.name \in Lookups /\ RemoteError(op.net)) =>
              ret = Return(Resource("Collection", op.c,
                                    [k \in {"name", "database"} |->
                                       IF k = "name" THEN StrV(op.attr)
                                       ELSE op.self]))
        /\ (op.name \in Lookups \cup {"Collection.refresh"}
               /\ TransportError(op.net)) =>
              ret.kind = "raise" /\ ret.exc = "ObjectRocketHTTPError"
        /\ (op.name = "Collection.refresh" /\ RemoteError(op.net)) =>
              ret = Return(NoneV)
        /\ (op.name \notin Lookups \cup {"Collection.refresh"}
               /\ (RemoteError(op.net)
                      \/ (Len(reqlog) = 2 /\ RemoteError(op.net2)))) =>
              ret.kind = "raise" /\ ret.exc = "ObjectRocketNonZeroRC"

C8_Witness ==
    /\ pc = "idle"
    /\ op.name = "getattr"
    /\ op.attr = "users"
    /\ Len(reqlog) = 1
    /\ RemoteError(op.net)
    /\ ret.kind = "return"
    /\ DOMAIN ret.val.attrs = {"name", "database"}

\* the listing the server would return holds an entry with the resource's
\* identifier
ExistsRemotely(self, net, key) ==
    /\ key \in DOMAIN self.attrs
    /\ net.t = "json"
    /\ net.body["rc"] = IntV(0)
    /\ \E i \in DOMAIN net.body["data"].items :
          LET e == net.body["data"].items[i]
          IN key \in DOMAIN e /\ e[key] = self.attrs[key]

\* C9: for a Database or ACL that still exists remotely, refresh() issues
\* its re-list request, completes without error and leaves the object the
\* caller holds unchanged.
C9_RefreshCompletes ==
    /\ (op.name = "Database.refresh" /\ ExistsRemotely(op.self, op.net, "name"))
          => (ret = Return(NoneV) /\ Len(reqlog) = 1 /\ held = op.self)
    /\ (op.name = "ACL.refresh"
            /\ ExistsRemotely(op.self, op.net, "cidr_mask"))
          => (ret = Return(NoneV) /\ Len(reqlog) = 1 /\ held = op.self)

\* C10: attribute lookup of a name that is not populated, on a Database
\* made by list_databases (also from an entry without a name field),
\* enters the lookup once, makes exactly one stats request and then returns
\* a Collection or raises.
C10_LookupOnce ==
    (op.name = "getattr" /\ op.attr \notin DOMAIN op.self.attrs) =>
        /\ Len(stack) <= 1
        /\ pc = "idle" => (Len(reqlog) = 1 /\ ret.kind \in {"return", "raise"})

----------------------------------------------------------------------------
(* add_acl / add_database as two remote steps against a server that other
   actors change in between *)

HasId(e, cls, id) == KeyOf(cls) \in DOMAIN e /\ e[KeyOf(cls)] = StrV(id)

Present(cls, id) ==
    \E i \in DOMAIN remote[cls] : HasId(remote[cls][i], cls, id)

\* the number of entries the server holds
RemoteSize == Len(remote["ACL"]) + Len(remote["Database"])

\* the server creating the entry asked for, unless one with the identifier
\* is there already
server_add(l, cls, id) ==
    IF \E i \in DOMAIN l : HasId(l[i], cls, id) THEN l
    ELSE Append(l, Entry(cls, TRUE, id, "small"))

server_delete(l, cls, id) == SelectSeq(l, LAMBDA e : ~HasId(e, cls, id))

AddName(cls) == IF cls = "ACL" THEN "add_acl" ELSE "add_database"

AddStub(cls, id) == IF cls = "ACL" THEN "acl/add" ELSE db_add_stub(id)

AddDoc(cls, id) ==
    IF cls = "ACL" THEN acl_doc(StrV(id), StrV("small"))
    ELSE DictV(<< <<"user", StrV("password")>> >>)

\* the create request gave r: an exception ends the call, otherwise the
\* server holds the entry and the call goes on to the listing
Created(cls, id, r) ==
    /\ reqlog' = r.sent
    /\ post_data_default' = r.dflt
    /\ IF r.ret.kind = "raise"
       THEN ret' = r.ret /\ UNCHANGED <<pc, remote>>
       ELSE /\ ret' = NoResult
            /\ pc' = "relist"
            /\ remote' = [remote EXCEPT
                            ![cls] = server_add(remote[cls], cls, id)]

\* the first statement of add_acl / add_database: the create request
add_create(c, cls, id, net) ==
    /\ Idle
    /\ RemoteOk(net) => (Present(cls, id) \/ RemoteSize < MaxRemote)
    /\ op' = [name |-> AddName(cls), c |-> c, cls |-> cls,
              filter |-> StrV(id), net |-> net, net2 |-> NoneV,
              raced |-> FALSE]
    /\ Created(cls, id, request(c, post_data_default, AddStub(cls, id),
                                AddDoc(cls, id), "post", net))
    /\ UNCHANGED <<api_key, session, supplied, held, stack>>

Relisted(r) ==
    /\ ret' = r.ret
    /\ reqlog' = reqlog \o r.sent
    /\ post_data_default' = r.dflt

\* the second and third statements: the filtered listing and `return x[0]`
add_relist(net) ==
    /\ pc = "relist"
    /\ net \in Failures \cup {Json(Ok(ListV(remote[op.cls])))}
    /\ Relisted(first_of(list_op(op.c, post_data_default, op.cls, op.filter,
                                 net)))
    /\ op' = [op EXCEPT !.net2 = net]
    /\ pc' = "idle"
    /\ UNCHANGED <<api_key, session, supplied, held, stack, remote>>

\* another actor deletes the entries with an identifier
other_delete(cls, id) ==
    /\ Present(cls, id)
    /\ remote' = [remote EXCEPT ![cls] = server_delete(remote[cls], cls, id)]
    /\ op' = IF pc = "relist" /\ op.cls = cls /\ op.filter = StrV(id)
             THEN [op EXCEPT !.raced = TRUE] ELSE op
    /\ UNCHANGED <<api_key, session, supplied, post_data_default, ret, reqlog,
                   held, stack, pc>>

\* another actor adds an entry
other_add(cls, e) ==
    /\ RemoteSize < MaxRemote
    /\ remote' = [remote EXCEPT ![cls] = Append(remote[cls], e)]
    /\ op' = IF pc = "relist" /\ op.cls = cls
                  /\ KeyOf(cls) \in DOMAIN e /\ e[KeyOf(cls)] = op.filter
             THEN [op EXCEPT !.raced = FALSE] ELSE op
    /\ UNCHANGED <<api_key, session, supplied, post_data_default, ret, reqlog,
                   held, stack, pc>>

NextRemote ==
    \/ \E cls \in Classes, net \in AckNets :
          \E id \in Ids(cls) : add_create(Owner, cls, id, net)
    \/ \E net \in Failures \cup {Json(Ok(ListV(remote[cls]))) : cls \in Classes} :
          add_relist(net)
    \/ \E cls \in Classes : \E id \in Ids(cls) : other_delete(cls, id)
    \/ \E cls \in Classes :
          \E e \in {x \in Entries(cls) : KeyOf(cls) \in DOMAIN x} :
             other_add(cls, e)
    \/ \E f \in Filters("ACL") :
          list_acls(Owner, f, Json(Ok(ListV(remote["ACL"]))))
    \/ \E f \in Filters("Database") :
          list_databases(Owner, f, Json(Ok(ListV(remote["Database"]))))

SpecRemote == InitCred /\ [][NextRemote]_vars

Adds == {"add_acl", "add_database"}

AddFinished ==
    /\ pc = "idle"
    /\ op.name \in Adds
    /\ Len(reqlog) = 2
    /\ RemoteOk(op.net2)

\* C7 as stated: when another actor deletes the entry between the create
\* and the re-list, add_acl / add_database hands the caller an empty
\* result and does not fail.
C7_EmptyResultOnRace ==
    (AddFinished /\ op.raced) => ret.kind = "return"

\* C7 amended: the create and the filtered re-list are two remote steps;
\* the call returns the resource of the first match of the re-list, and
\* when the re-list has no match, as after a delete by another actor in
\* between, it raises IndexError and returns nothing.
C7_IndexErrorOnRace ==
    /\ pc = "relist" =>
          (op.name \in Adds /\ Len(reqlog) = 1 /\ ret = NoResult)
    /\ AddFinished =>
          LET l == op.net2.body["data"].items
              M == Matching(l, KeyOf(op.cls), op.filter)
          IN /\ M # {} => ret = Return(Resource(op.cls, op.c, l[Nth(M, 1)]))
             /\ M = {} => (ret.kind = "raise" /\ ret.exc = "IndexError")
             /\ op.raced => (ret.kind = "raise" /\ ret.exc = "IndexError")

C7_Witness ==
    /\ AddFinished
    /\ op.name = "add_acl"
    /\ op.raced
    /\ ret.kind = "raise"
    /\ ret.exc = "IndexError"

====
